---- MODULE Spec2Model ----
(***************************************************************************)
(* Test execution orchestration and coverage aggregation of server.py:     *)
(* the submission chain (run_apex_tests_comprehensive), the job poller     *)
(* (monitor_test_execution), the coverage aggregator                       *)
(* (get_comprehensive_coverage_data) and the report producers built on it. *)
(*                                                                         *)
(* The engine serves one request at a time.  A request advances in steps,  *)
(* one per round trip (or group of round trips) to the remote platform;    *)
(* pc names the step the request is at, and the platform's answer to a     *)
(* round trip is an input of the step that makes it.                       *)
(***************************************************************************)
EXTENDS Integers, Sequences, FiniteSets, TLC

VARIABLES
    sf_conn,      \* the global connection handle (server.py:25)
    covRows,      \* the platform's coverage table: the rows a coverage query finds
    pc,           \* "idle", or the step the request being served is at
    req,          \* the tool call being served, or served last
    loc,          \* the local variables of the request being served
    trace,        \* the round trips of the component serving the request
                  \* (coordinator, poller or aggregator), in order
    result,       \* what the last served request returned
    queueItems,   \* the platform's ApexTestQueueItem rows, in order of creation
    runs          \* the submissions of one unit set that engines serve
                  \* against that queue, and how far each has come

vars == <<sf_conn, covRows, pc, req, loc, trace, result, queueItems, runs>>

(***************************************************************************)
(* Bounds of the model.                                                    *)
(***************************************************************************)
MaxLines == 2     \* line counts of a coverage row range over 0..MaxLines
MaxRows == 2      \* a coverage query returns at most MaxRows rows
MaxQueue == 2     \* a queue query finds at most MaxQueue active rows per class

Max(a, b) == IF a >= b THEN a ELSE b

(***************************************************************************)
(* Unit names.  A name is the sequence of its characters, so that          *)
(* str.endswith is computed and not assumed.                               *)
(***************************************************************************)
nAcct == <<"A", "c", "c", "t">>
nTester == <<"T", "e", "s", "t", "e", "r">>
nAcctTest == <<"A", "c", "c", "t", "T", "e", "s", "t">>

CoverageNames == {nAcct, nAcctTest, nTester}

\* the names in the order of "ORDER BY ApexClassOrTrigger.Name"
NameOrder == <<nAcct, nAcctTest, nTester>>
NameRank(name) == CHOOSE i \in 1..Len(NameOrder) : NameOrder[i] = name

sfxTest == <<"T", "e", "s", "t">>
sfx_Test == <<"_", "T", "e", "s", "t">>

\* str.endswith(suffix)
endswith(s, suffix) ==
    /\ Len(s) >= Len(suffix)
    /\ SubSeq(s, Len(s) - Len(suffix) + 1, Len(s)) = suffix

IsTestClassNameOnly_Test(class_name) == endswith(class_name, sfx_Test)

\* server.py:333, 398, 436, 481: the test-unit naming convention
IsTestClassName(class_name) ==
    endswith(class_name, sfxTest) \/ endswith(class_name, sfx_Test)

(***************************************************************************)
(* Coverage rows as the platform returns them (ApexCodeCoverage /          *)
(* ApexCodeCoverageAggregate records).                                     *)
(***************************************************************************)
TestClassNames == {"AcctTest"}
TestMethodNames == {"m1"}

CoverageRows(counts) ==
    [Name : CoverageNames,
     NumLinesCovered : counts,
     NumLinesUncovered : counts,
     TestClassName : TestClassNames,
     TestMethodName : TestMethodNames]

RECURSIVE SeqsUpTo(_, _)
SeqsUpTo(S, n) ==
    IF n = 0 THEN {<<>>}
    ELSE LET shorter == SeqsUpTo(S, n - 1)
         IN shorter \cup
               {Append(s, x) : s \in {t \in shorter : Len(t) = n - 1},
                               x \in S}

\* the tables of coverage rows the platform may hold: up to two rows with line
\* counts up to MaxLines, and up to MaxRows rows with line counts up to one,
\* ordered by name as every coverage query orders its rows (server.py:316,
\* 388, 423, 470)
CoverageRowSeqs ==
    {t \in SeqsUpTo(CoverageRows(0..MaxLines), 2)
            \cup SeqsUpTo(CoverageRows(0..1), MaxRows) :
        \A i \in 1..(Len(t) - 1) : NameRank(t[i].Name) <= NameRank(t[i + 1].Name)}

\* position of class_name among the keys of a class_coverage_map, 0 if absent
KeyIndex(map, class_name) ==
    IF \E i \in 1..Len(map) : map[i].Name = class_name
    THEN CHOOSE i \in 1..Len(map) : map[i].Name = class_name
    ELSE 0

MethodEntry(record) ==
    [method |-> <<record.TestClassName, record.TestMethodName>>,
     covered |-> record.NumLinesCovered,
     uncovered |-> record.NumLinesUncovered]

(***************************************************************************)
(* The connection handle.  sf_conn is "None", "Live" (a handle whose last  *)
(* validation query succeeded) or "Stale" (a handle the constructor        *)
(* returned but whose validation query failed).                            *)
(***************************************************************************)
retry_count == 3

\* the attempts of one initialize_salesforce call, each "ok", "connect_fails"
\* (the constructor raises), "query_fails" (the test query raises) or
\* "missing_creds" (unset environment variables, which end the call)
InitAttempts ==
    {<<"missing_creds">>,
     <<"ok">>,
     <<"connect_fails", "query_fails", "ok">>,
     <<"connect_fails", "connect_fails", "connect_fails">>,
     <<"query_fails", "connect_fails", "connect_fails">>}

RECURSIVE InitLoop(_, _, _)
InitLoop(conn, attempts, attempt) ==
    IF attempt > retry_count \/ attempt > Len(attempts)
    THEN [ok |-> FALSE, conn |-> conn]
    ELSE CASE attempts[attempt] = "ok" -> [ok |-> TRUE, conn |-> "Live"]
           [] attempts[attempt] = "missing_creds" -> [ok |-> FALSE, conn |-> conn]
           [] attempts[attempt] = "query_fails" -> InitLoop("Stale", attempts, attempt + 1)
           [] OTHER -> InitLoop(conn, attempts, attempt + 1)

\* server.py:29-109
initialize_salesforce(conn, attempts) == InitLoop(conn, attempts, 1)

ensure_connectionReportsSuccess(conn, queryOk, attempts) ==
    [ok |-> TRUE,
     conn |-> IF conn # "None" /\ queryOk
              THEN "Live" ELSE initialize_salesforce("None", attempts).conn]

\* server.py:112-126; queryOk: the outcome of the validation query
ensure_connection(conn, queryOk, attempts) ==
    IF conn = "None"
    THEN initialize_salesforce(conn, attempts)
    ELSE IF queryOk
         THEN [ok |-> TRUE, conn |-> "Live"]
         ELSE initialize_salesforce("None", attempts)

\* the outcomes a caller of ensure_connection can meet: the validation query
\* succeeds (or a missing handle is initialized at once), or it fails and the
\* attempts decide
ConnChecks ==
    {[queryOk |-> TRUE, attempts |-> <<"ok">>]}
        \cup {[queryOk |-> FALSE, attempts |-> a] : a \in InitAttempts \ {<<"ok">>}}

(***************************************************************************)
(* Coverage sources.  answer: "rows" (the platform finds the rows of       *)
(* covRows), "empty" (it finds none), "error" (a non-200 status or an      *)
(* exception of the request).                                              *)
(***************************************************************************)
Answers == {"rows", "empty", "error"}

\* server.py:264-297; ok = FALSE stands for the None it returns on a failure
query_tooling_api(conn, check, answer, rows) ==
    LET c == ensure_connection(conn, check.queryOk, check.attempts)
    IN IF ~c.ok
       THEN [ok |-> FALSE, records |-> <<>>, conn |-> c.conn, sent |-> FALSE]
       ELSE IF answer = "rows"
            THEN [ok |-> TRUE, records |-> rows, conn |-> c.conn, sent |-> TRUE]
            ELSE IF answer = "empty"
                 THEN [ok |-> TRUE, records |-> <<>>, conn |-> c.conn, sent |-> TRUE]
                 ELSE [ok |-> FALSE, records |-> <<>>, conn |-> c.conn, sent |-> TRUE]

\* a query through the handle (sf_conn.query, sf_conn.query_all): it raises on a
\* None handle, and otherwise when the platform or the link fails
Raises(conn, answer) == conn = "None" \/ answer = "error"

(***************************************************************************)
(* get_comprehensive_coverage_data, server.py:300-495.  A class coverage   *)
(* map is the sequence of its values in insertion order.                   *)
(***************************************************************************)
MergeDetailedOverwrite(map, record) ==
    LET i == KeyIndex(map, record.Name)
    IN IF i = 0
       THEN Append(map, [Name |-> record.Name,
                         NumLinesCovered |-> record.NumLinesCovered,
                         NumLinesUncovered |-> record.NumLinesUncovered,
                         TestMethods |-> <<MethodEntry(record)>>])
       ELSE [map EXCEPT ![i] =
                [@ EXCEPT !.NumLinesCovered = record.NumLinesCovered,
                          !.NumLinesUncovered = record.NumLinesUncovered,
                          !.TestMethods = Append(@, MethodEntry(record))]]

\* only the first row of a unit is kept as a contributing method
MergeDetailedFirstMethod(map, record) ==
    LET i == KeyIndex(map, record.Name)
    IN IF i = 0
       THEN Append(map, [Name |-> record.Name,
                         NumLinesCovered |-> record.NumLinesCovered,
                         NumLinesUncovered |-> record.NumLinesUncovered,
                         TestMethods |-> <<MethodEntry(record)>>])
       ELSE [map EXCEPT ![i] =
                [@ EXCEPT !.NumLinesCovered = Max(@, record.NumLinesCovered),
                          !.NumLinesUncovered = Max(@, record.NumLinesUncovered)]]

\* server.py:338-362: one row of the per-method source into the map
MergeDetailed(map, record) ==
    LET i == KeyIndex(map, record.Name)
    IN IF i = 0
       THEN Append(map, [Name |-> record.Name,
                         NumLinesCovered |-> record.NumLinesCovered,
                         NumLinesUncovered |-> record.NumLinesUncovered,
                         TestMethods |-> <<MethodEntry(record)>>])
       ELSE [map EXCEPT ![i] =
                [@ EXCEPT !.NumLinesCovered = Max(@, record.NumLinesCovered),
                          !.NumLinesUncovered = Max(@, record.NumLinesUncovered),
                          !.TestMethods = Append(@, MethodEntry(record))]]

\* server.py:326-364: the loop over the rows of the per-method source
RECURSIVE AggregateDetailed(_, _)
AggregateDetailed(map, records) ==
    IF records = <<>>
    THEN map
    ELSE IF IsTestClassName(Head(records).Name)
         THEN AggregateDetailed(map, Tail(records))
         ELSE AggregateDetailed(MergeDetailed(map, Head(records)), Tail(records))

\* server.py:440-453: one row of the recency-window source into the map
MergeRecent(map, record) ==
    LET i == KeyIndex(map, record.Name)
    IN IF i = 0
       THEN Append(map, [Name |-> record.Name,
                         NumLinesCovered |-> record.NumLinesCovered,
                         NumLinesUncovered |-> record.NumLinesUncovered])
       ELSE [map EXCEPT ![i] =
                [@ EXCEPT !.NumLinesCovered = Max(@, record.NumLinesCovered),
                          !.NumLinesUncovered = Max(@, record.NumLinesUncovered)]]

\* server.py:434-455: the loop over the rows of the recency-window source
RECURSIVE AggregateRecent(_, _)
AggregateRecent(map, records) ==
    IF records = <<>>
    THEN map
    ELSE IF Len(Head(records).Name) > 0 /\ ~IsTestClassName(Head(records).Name)
         THEN AggregateRecent(MergeRecent(map, Head(records)), Tail(records))
         ELSE AggregateRecent(map, Tail(records))

\* a record of the aggregate sources, as the platform returns it
AggregateRecord(record) ==
    [Name |-> record.Name,
     NumLinesCovered |-> record.NumLinesCovered,
     NumLinesUncovered |-> record.NumLinesUncovered]

\* server.py:395-399 and 478-482: the aggregate sources drop the test classes
RECURSIVE FilterAggregate(_)
FilterAggregate(records) ==
    IF records = <<>>
    THEN <<>>
    ELSE IF ~IsTestClassName(Head(records).Name)
         THEN <<AggregateRecord(Head(records))>> \o FilterAggregate(Tail(records))
         ELSE FilterAggregate(Tail(records))

(***************************************************************************)
(* Requests, locals, round trips and outcomes.                             *)
(***************************************************************************)
UnitNames == {"FooTest", "BarTest"}
ClassNameLists == {<<>>, <<"FooTest">>, <<"FooTest", "BarTest">>}
TestLevels == {"RunSpecifiedTests", "RunLocalTests", "RunAllTestsInOrg", "Unlisted"}
JobId == "7071"

\* what the platform holds when a query reads it: the ApexClass rows that
\* exist, and the number of Queued/Processing ApexTestQueueItem rows per class
OrgStates == {{}, {"FooTest"}, {"FooTest", "BarTest"}}
QueueStates == [UnitNames -> 0..MaxQueue]

\* answers of the platform to a query and to a test submission request
QueryAnswers == {"ok", "error"}
PostAnswers == {"accepted", "rejected", "error"}
CreateAnswers == {"created", "refused", "error"}
StatusAnswers == {"error", "none", "Processing", "Completed", "Failed", "Aborted"}

\* test results as ApexTestResult returns them (the Outcome of each row)
TestResultSamples == {<<>>, <<"Pass">>, <<"Pass", "Fail">>}

NoRequest == [op |-> "none", class_names |-> <<>>, test_level |-> "none",
              async_execution |-> FALSE, code_coverage |-> FALSE]

InitLoc ==
    [job_id |-> "None", results_job |-> "None", polls |-> 0, status |-> "None",
     class_records |-> <<>>,
     tests |-> <<>>, cov_job |-> "None", cov_names |-> <<>>, next |-> 1, cont |-> "none",
     coverage |-> <<>>, source |-> 0]

Ev(op) == [op |-> op]

NoReport == [section |-> "none"]

\* a returned dict: kind names the return statement, execution_method and
\* job_id are "absent" when the dict has no such key
\* the return statements whose message interpolates the text of the failure
\* that caused them: str(e) of the except clauses (server.py:596, 893, 969,
\* 1137, 1437, 1505) and the message initialize_salesforce hands to
\* test_connection (server.py:1722)
MessagesWithCause ==
    {"exception", "enqueue_exception", "analysis_exception", "coverage_exception",
     "status_exception", "format_exception", "FAILED"}

Outcome(kind, success, execution_method, job_id) ==
    [kind |-> kind, success |-> success, execution_method |-> execution_method,
     job_id |-> job_id, classes |-> <<>>, enqueued_classes |-> 0,
     queue_items |-> <<>>, classes_found |-> 0, report |-> NoReport,
     cause |-> IF kind \in MessagesWithCause THEN "str(e)" ELSE "absent"]

NoResult == Outcome("none", FALSE, "absent", "absent")

\* the request returns out
Return(out) ==
    /\ pc' = "idle"
    /\ loc' = InitLoc
    /\ result' = out

RECURSIVE Copies(_, _)
Copies(x, n) == IF n = 0 THEN <<>> ELSE <<x>> \o Copies(x, n - 1)

\* the ApexClass.Name of the active queue rows the query of server.py:172-179 finds
RECURSIVE RunningRows(_, _)
RunningRows(class_names, queue) ==
    IF class_names = <<>>
    THEN <<>>
    ELSE Copies(Head(class_names), queue[Head(class_names)])
             \o RunningRows(Tail(class_names), queue)

\* the ApexClass rows a "WHERE Name IN (class_names)" query finds
RECURSIVE Existing(_, _)
Existing(class_names, org) ==
    IF class_names = <<>>
    THEN <<>>
    ELSE (IF Head(class_names) \in org THEN <<Head(class_names)>> ELSE <<>>)
             \o Existing(Tail(class_names), org)

\* the submissions that can meet at the queue; the engine that serves it, its
\* step, the rows its dedup query found (-1: none read), the status its dedup
\* check returned, whether the job query found a test job, whether the dedup
\* query ran before any queue item of another submission was created, the
\* classes its resolution found and what it returned
Submissions == {1, 2}
NewRun(engine, class_names) ==
    [engine |-> engine, pc |-> "new", class_names |-> class_names, rows |-> -1,
     status |-> "none", job |-> FALSE, first |-> FALSE, class_records |-> <<>>,
     kind |-> "none", queue_items |-> <<>>]
NoRuns == [s \in Submissions |-> NewRun(1, <<>>)]

(***************************************************************************)
(* check_test_execution_status, server.py:164-211.  status "None" stands   *)
(* for the None it returns when it cannot tell.                            *)
(***************************************************************************)
check_test_execution_status(class_names, conn, check, queueAnswer, jobAnswer, queue, job) ==
    LET c == ensure_connection(conn, check.queryOk, check.attempts)
        queue_results == RunningRows(class_names, queue)
        q == [op |-> "queue_query", rows |-> Len(queue_results)]
    IN IF ~c.ok
       THEN [status |-> "None", classes |-> <<>>, conn |-> c.conn, events |-> <<>>]
       ELSE IF queueAnswer = "error"
            THEN [status |-> "None", classes |-> <<>>, conn |-> c.conn,
                  events |-> <<Ev("queue_query_failed")>>]
            ELSE IF queue_results # <<>>
                 THEN [status |-> "running", classes |-> queue_results, conn |-> c.conn,
                       events |-> <<q>>]
                 ELSE IF jobAnswer = "error"
                      THEN [status |-> "None", classes |-> <<>>, conn |-> c.conn,
                            events |-> <<q, Ev("job_query_failed")>>]
                      ELSE IF job
                           THEN [status |-> "running", classes |-> <<>>, conn |-> c.conn,
                                 events |-> <<q, Ev("job_query")>>]
                           ELSE [status |-> "not_running", classes |-> <<>>, conn |-> c.conn,
                                 events |-> <<q, Ev("job_query")>>]

(***************************************************************************)
(* run_apex_tests_comprehensive, server.py:897-973.                        *)
(***************************************************************************)
MissingUnitsNever(class_names, test_level) == FALSE

\* server.py:914: test_level == "RunSpecifiedTests" and not class_names
MissingUnits(class_names, test_level) ==
    test_level = "RunSpecifiedTests" /\ class_names = <<>>

AlreadyRunningNever(test_status) == FALSE

AlreadyRunningOrUnknown(test_status) == test_status.status \in {"running", "None"}

\* server.py:922: test_status and test_status["status"] == "running"
AlreadyRunning(test_status) == test_status.status = "running"

NoneResolvedNever(class_records) == FALSE

\* server.py:941: not class_records
NoneResolved(class_records) == class_records = <<>>

\* server.py:905-918: the connection check and the validation of the arguments
RunApexTests ==
    /\ pc = "idle"
    /\ \E class_names \in ClassNameLists, test_level \in TestLevels,
          async_execution \in BOOLEAN, code_coverage \in BOOLEAN, check \in ConnChecks :
          LET c == ensure_connection(sf_conn, check.queryOk, check.attempts)
          IN /\ sf_conn' = c.conn
             /\ req' = [op |-> "run_apex_tests_comprehensive", class_names |-> class_names,
                        test_level |-> test_level, async_execution |-> async_execution,
                        code_coverage |-> code_coverage]
             /\ trace' = <<>>
             /\ IF ~c.ok
                THEN Return(Outcome("connection_failed", FALSE, "absent", "absent"))
                ELSE IF MissingUnits(class_names, test_level)
                     THEN Return(Outcome("missing_units", FALSE, "absent", "absent"))
                     ELSE /\ pc' = IF class_names # <<>> THEN "dedup" ELSE "tooling"
                          /\ loc' = InitLoc
                          /\ result' = NoResult
    /\ UNCHANGED <<covRows>>
    /\ UNCHANGED <<queueItems, runs>>

\* server.py:920-931: the check for a run in flight
SubmitDedup ==
    /\ pc = "dedup"
    /\ \E check \in ConnChecks, queueAnswer \in QueryAnswers, jobAnswer \in QueryAnswers,
          queue \in QueueStates, job \in BOOLEAN :
          LET test_status == check_test_execution_status(req.class_names, sf_conn, check,
                                 queueAnswer, jobAnswer, queue, job)
          IN /\ sf_conn' = test_status.conn
             /\ trace' = trace \o test_status.events
             /\ IF AlreadyRunning(test_status)
                THEN Return([Outcome("already_running", FALSE, "absent", "absent")
                                EXCEPT !.classes = test_status.classes])
                ELSE /\ pc' = "resolve"
                     /\ UNCHANGED <<loc, result>>
    /\ UNCHANGED <<covRows, req>>
    /\ UNCHANGED <<queueItems, runs>>

\* server.py:933-949: the requested classes must exist
SubmitResolve ==
    /\ pc = "resolve"
    /\ \E answer \in QueryAnswers, org \in OrgStates :
          IF Raises(sf_conn, answer)
          THEN /\ trace' = Append(trace, Ev("class_query_failed"))
               /\ Return(Outcome("exception", FALSE, "absent", "absent"))
          ELSE LET class_records == Existing(req.class_names, org)
               IN /\ trace' = Append(trace, [op |-> "class_query",
                                              records |-> class_records])
                  /\ IF NoneResolved(class_records)
                     THEN Return([Outcome("not_found", FALSE, "absent", "absent")
                                     EXCEPT !.classes = req.class_names])
                     ELSE /\ pc' = IF req.test_level = "RunSpecifiedTests"
                                   THEN "enqueue" ELSE "tooling"
                          /\ loc' = [loc EXCEPT !.class_records = class_records]
                          /\ UNCHANGED result
    /\ UNCHANGED <<sf_conn, covRows, req>>
    /\ UNCHANGED <<queueItems, runs>>

(***************************************************************************)
(* enqueue_tests_individually, server.py:1076-1137.                        *)
(***************************************************************************)
CreateEvent(unit, outcome) == [op |-> "create", unit |-> unit, outcome |-> outcome]

RECURSIVE EnqueueLoopStopsAtFailure(_, _)
EnqueueLoopStopsAtFailure(class_records, outcomes) ==
    IF class_records = <<>>
    THEN [items |-> <<>>, events |-> <<>>]
    ELSE IF Head(outcomes) # "created"
         THEN [items |-> <<>>,
               events |-> <<CreateEvent(Head(class_records), Head(outcomes))>>]
         ELSE LET rest == EnqueueLoopStopsAtFailure(Tail(class_records), Tail(outcomes))
              IN [items |-> <<Head(class_records)>> \o rest.items,
                  events |-> <<CreateEvent(Head(class_records), Head(outcomes))>>
                                \o rest.events]

\* server.py:1094-1116: one ApexTestQueueItem.create per class record; a refused
\* or failed creation is skipped
RECURSIVE EnqueueLoop(_, _)
EnqueueLoop(class_records, outcomes) ==
    IF class_records = <<>>
    THEN [items |-> <<>>, events |-> <<>>]
    ELSE LET rest == EnqueueLoop(Tail(class_records), Tail(outcomes))
         IN [items |-> (IF Head(outcomes) = "created"
                        THEN <<Head(class_records)>> ELSE <<>>) \o rest.items,
             events |-> <<CreateEvent(Head(class_records), Head(outcomes))>>
                           \o rest.events]

enqueue_tests_individually(class_names, conn, answer, outcomes, org) ==
    IF Raises(conn, answer)
    THEN [out |-> Outcome("enqueue_exception", FALSE, "absent", "absent"),
          items |-> <<>>, events |-> <<Ev("enqueue_class_query_failed")>>]
    ELSE LET class_records == Existing(class_names, org)
             loop == EnqueueLoop(class_records, outcomes)
             q == <<[op |-> "enqueue_class_query", records |-> class_records]>>
         IN IF class_records = <<>>
            THEN [out |-> Outcome("enqueue_not_found", FALSE, "absent", "absent"),
                  items |-> <<>>, events |-> q]
            ELSE IF loop.items # <<>>
                 THEN [out |-> [Outcome("enqueued", TRUE, "ApexTestQueueItem", "absent")
                                   EXCEPT !.enqueued_classes = Len(loop.items),
                                          !.queue_items = loop.items],
                       items |-> loop.items, events |-> q \o loop.events]
                 ELSE [out |-> Outcome("enqueue_failed", FALSE, "absent", "absent"),
                       items |-> <<>>, events |-> q \o loop.events]

\* number of occurrences of x in the sequence s
Count(s, x) == Cardinality({i \in 1..Len(s) : s[i] = x})

\* server.py:951-955: direct enqueueing is tried first
SubmitEnqueue ==
    /\ pc = "enqueue"
    /\ \E answer \in QueryAnswers, org \in OrgStates,
          outcomes \in [1..Len(req.class_names) -> CreateAnswers] :
          LET r == enqueue_tests_individually(req.class_names, sf_conn, answer, outcomes, org)
          IN /\ trace' = trace \o r.events
             /\ IF r.out.success
                THEN Return(r.out)
                ELSE /\ pc' = "tooling"
                     /\ UNCHANGED <<loc, result>>
    /\ UNCHANGED <<sf_conn, covRows, req>>
    /\ UNCHANGED <<queueItems, runs>>

(***************************************************************************)
(* run_apex_tests_tooling_api_enhanced, server.py:976-1073.                *)
(***************************************************************************)
\* server.py:983-1005: the payload, or why none is built
ToolingPayload(class_names, test_level, code_coverage, conn, answer, org) ==
    IF test_level = "RunSpecifiedTests" /\ class_names # <<>>
    THEN IF Raises(conn, answer)
         THEN [built |-> FALSE, kind |-> "tooling_exception",
               events |-> <<Ev("tooling_class_query_failed")>>]
         ELSE [built |-> TRUE, kind |-> "payload",
               testLevel |-> test_level, classIds |-> Existing(class_names, org),
               skipCodeCoverage |-> ~code_coverage,
               events |-> <<Ev("tooling_class_query")>>]
    ELSE IF test_level \in {"RunLocalTests", "RunAllTestsInOrg"}
         THEN IF conn = "None"
              THEN [built |-> FALSE, kind |-> "tooling_exception", events |-> <<>>]
              ELSE [built |-> TRUE, kind |-> "payload",
                    testLevel |-> test_level, classIds |-> <<>>,
                    skipCodeCoverage |-> ~code_coverage, events |-> <<>>]
         ELSE [built |-> FALSE, kind |-> "invalid_test_level", events |-> <<>>]

PostEvent(endpoint, payload, answer) ==
    [op |-> "post", endpoint |-> endpoint, testLevel |-> payload.testLevel,
     classIds |-> payload.classIds, skipCodeCoverage |-> payload.skipCodeCoverage,
     answer |-> answer]

ReturnsJobAtOnceAlways(async_execution) == TRUE

\* server.py:1037: with async_execution the job id is returned for monitoring,
\* without it the call waits for the job
ReturnsJobAtOnce(async_execution) == async_execution

\* server.py:957-962 with 976-1073: the managed submission endpoints
SubmitTooling ==
    /\ pc = "tooling"
    /\ \E answer \in QueryAnswers, org \in OrgStates :
          LET payload == ToolingPayload(req.class_names, req.test_level,
                                        req.code_coverage, sf_conn, answer, org)
          IN IF ~payload.built
             THEN /\ trace' = trace \o payload.events
                  /\ pc' = "analysis"
                  /\ UNCHANGED <<loc, result>>
             ELSE \E async \in PostAnswers :
                     LET t1 == trace \o payload.events
                                 \o <<PostEvent("runTestsAsynchronous", payload, async)>>
                     IN IF async = "accepted"
                        THEN IF ReturnsJobAtOnce(req.async_execution)
                             THEN /\ trace' = t1
                                  /\ Return([Outcome("async_started", TRUE,
                                                     "Tooling_API_Async", JobId)
                                                EXCEPT !.classes = req.class_names])
                             ELSE /\ trace' = <<>>
                                  /\ pc' = "polling"
                                  /\ loc' = [loc EXCEPT !.job_id = JobId]
                                  /\ UNCHANGED result
                        ELSE \E sync \in PostAnswers :
                                /\ trace' = t1 \o <<PostEvent("runTestsSynchronous",
                                                              payload, sync)>>
                                /\ IF sync = "accepted"
                                   THEN Return(Outcome("sync_done", TRUE,
                                                       "Tooling_API_Sync", "absent"))
                                   ELSE /\ pc' = "analysis"
                                        /\ UNCHANGED <<loc, result>>
    /\ UNCHANGED <<sf_conn, covRows, req>>
    /\ UNCHANGED <<queueItems, runs>>

(***************************************************************************)
(* run_apex_tests_analysis_mode, server.py:1440-1505.                      *)
(***************************************************************************)
run_apex_tests_analysis_mode(class_names, conn, answer, org) ==
    IF class_names # <<>> /\ Raises(conn, answer)
    THEN [out |-> Outcome("analysis_exception", FALSE, "absent", "absent"),
          events |-> <<Ev("analysis_class_query_failed")>>]
    ELSE [out |-> [Outcome("analysis", TRUE, "Analysis_Mode", "absent")
                      EXCEPT !.classes_found = Len(Existing(class_names, org))],
          events |-> IF class_names # <<>> THEN <<Ev("analysis_class_query")>> ELSE <<>>]

\* server.py:964-965: the fallback when no strategy returned success
SubmitAnalysis ==
    /\ pc = "analysis"
    /\ \E answer \in QueryAnswers, org \in OrgStates :
          LET r == run_apex_tests_analysis_mode(req.class_names, sf_conn, answer, org)
          IN /\ trace' = trace \o r.events
             /\ Return(r.out)
    /\ UNCHANGED <<sf_conn, covRows, req>>
    /\ UNCHANGED <<queueItems, runs>>

(***************************************************************************)
(* monitor_test_execution, server.py:1140-1184: one iteration of the       *)
(* polling loop per step.                                                  *)
(***************************************************************************)
max_polls == 60

TerminalStatusesOnlyCompleted == {"Completed"}

\* server.py:1161
TerminalStatuses == {"Completed", "Failed", "Aborted"}

\* server.py:1149: the loop ends after its max_polls-th iteration
BudgetExhausted(polls) == polls >= max_polls

MonitorPoll ==
    /\ pc = "polling"
    /\ \E status \in StatusAnswers :
          IF Raises(sf_conn, status)
          THEN /\ trace' = Append(trace, Ev("status_read_failed"))
               /\ Return(Outcome("timed_out", TRUE, "Async_Timeout", loc.job_id))
          ELSE IF status \in TerminalStatuses
               THEN \* get_test_results_by_job_id takes over
                    /\ trace' = <<>>
                    /\ pc' = "results"
                    /\ loc' = [loc EXCEPT !.polls = 0, !.status = status]
                    /\ UNCHANGED result
               ELSE /\ trace' = Append(trace, Ev("status_read"))
                    /\ IF BudgetExhausted(loc.polls + 1)
                       THEN Return(Outcome("timed_out", TRUE, "Async_Timeout", loc.job_id))
                       ELSE /\ loc' = [loc EXCEPT !.polls = @ + 1, !.status = status]
                            /\ UNCHANGED <<pc, result>>
    /\ UNCHANGED <<sf_conn, covRows, req>>
    /\ UNCHANGED <<queueItems, runs>>

(***************************************************************************)
(* get_test_results_by_job_id, server.py:1187-1217.                        *)
(***************************************************************************)
\* the aggregator is entered for job_id and class_names; cont is where its
\* caller goes on
EnterCoverage(l, job_id, class_names, cont) ==
    [l EXCEPT !.cov_job = job_id, !.cov_names = class_names, !.next = 1,
              !.cont = cont, !.coverage = <<>>, !.source = 0]

JobResults ==
    /\ pc = "results"
    /\ \E answer \in QueryAnswers :
          IF Raises(sf_conn, answer)
          THEN /\ trace' = Append(trace, Ev("results_query_failed"))
               /\ pc' = "analysis"
               /\ UNCHANGED <<loc, result>>
          ELSE \E tests \in TestResultSamples :
                  /\ IF req.code_coverage
                     THEN /\ pc' = "coverage"
                          /\ trace' = <<>>
                          /\ loc' = EnterCoverage([loc EXCEPT !.tests = tests,
                                                            !.status = "None"],
                                                  loc.job_id, req.class_names, "format")
                     ELSE /\ pc' = "format"
                          /\ trace' = Append(trace, Ev("results_query"))
                          /\ loc' = [loc EXCEPT !.tests = tests, !.coverage = <<>>,
                                                 !.status = "None"]
                  /\ UNCHANGED result
    /\ UNCHANGED <<sf_conn, covRows, req>>
    /\ UNCHANGED <<queueItems, runs>>

(***************************************************************************)
(* The fallback chain of get_comprehensive_coverage_data, server.py:       *)
(* 300-495: one source per step.                                           *)
(***************************************************************************)
NextSourceIgnoringJob(job_id, class_names, n) == Max(n, 1)

\* the first source at or after n that the call queries
NextSource(job_id, class_names, n) ==
    IF n <= 1 /\ class_names # <<>> /\ job_id # "None"
    THEN 1
    ELSE IF n <= 2 /\ job_id # "None" THEN 2 ELSE Max(n, 3)

Method1NeverReturns(coverage_results) == FALSE

\* server.py:365-375: the per-method source wins when its aggregation is not empty
Method1Returns(coverage_results) == coverage_results # <<>>

\* server.py:306-378
CoverageMethod1(conn, check, answer, rows) ==
    LET q == query_tooling_api(conn, check, answer, rows)
        coverage_results == AggregateDetailed(<<>>, q.records)
    IN [returns |-> q.ok /\ q.records # <<>> /\ Method1Returns(coverage_results),
        results |-> coverage_results, conn |-> q.conn,
        event |-> [op |-> "coverage_query", source |-> 1, sent |-> q.sent,
                   rows |-> Len(q.records)]]

\* server.py:380-411 (source 2) and 463-489 (source 4)
CoverageAggregateMethod(source, conn, check, answer, rows) ==
    LET q == query_tooling_api(conn, check, answer, rows)
        filtered_records == FilterAggregate(q.records)
    IN [returns |-> q.ok /\ q.records # <<>> /\ filtered_records # <<>>,
        results |-> filtered_records, conn |-> q.conn,
        event |-> [op |-> "coverage_query", source |-> source, sent |-> q.sent,
                   rows |-> Len(q.records)]]

\* a failure of the recency source ends the call with what it has
CoverageMethod3Unguarded(conn, answer, rows) ==
    LET recent_coverage == IF Raises(conn, answer) \/ answer = "empty" THEN <<>> ELSE rows
        coverage_results == AggregateRecent(<<>>, recent_coverage)
    IN [returns |-> Raises(conn, answer) \/ coverage_results # <<>>,
        results |-> coverage_results, conn |-> conn,
        event |-> [op |-> "coverage_query", source |-> 3, sent |-> conn # "None",
                   rows |-> Len(recent_coverage)]]

\* server.py:413-461
CoverageMethod3(conn, answer, rows) ==
    LET recent_coverage == IF Raises(conn, answer) \/ answer = "empty" THEN <<>> ELSE rows
        coverage_results == AggregateRecent(<<>>, recent_coverage)
    IN [returns |-> recent_coverage # <<>> /\ coverage_results # <<>>,
        results |-> coverage_results, conn |-> conn,
        event |-> [op |-> "coverage_query", source |-> 3, sent |-> conn # "None",
                   rows |-> Len(recent_coverage)]]

\* server.py:468: "AND (NumLinesCovered > 0 OR NumLinesUncovered > 0)"
RECURSIVE WithLines(_)
WithLines(rows) ==
    IF rows = <<>>
    THEN <<>>
    ELSE (IF Head(rows).NumLinesCovered > 0 \/ Head(rows).NumLinesUncovered > 0
          THEN <<Head(rows)>> ELSE <<>>) \o WithLines(Tail(rows))

CoverageMethod(source, conn, check, answer, rows) ==
    CASE source = 1 -> CoverageMethod1(conn, check, answer, rows)
      [] source = 2 -> CoverageAggregateMethod(2, conn, check, answer, rows)
      [] source = 3 -> CoverageMethod3(conn, answer, rows)
      [] OTHER -> CoverageAggregateMethod(4, conn, check, answer, WithLines(rows))

\* the connection check of a source that makes one (sources 1, 2 and 4)
SourceChecks(source) ==
    IF source = 3 THEN {[queryOk |-> TRUE, attempts |-> <<"ok">>]} ELSE ConnChecks

CoverageSource ==
    /\ pc = "coverage"
    /\ LET source == NextSource(loc.cov_job, loc.cov_names, loc.next)
       IN \E check \in SourceChecks(source), answer \in Answers :
             LET m == CoverageMethod(source, sf_conn, check, answer, covRows)
             IN /\ sf_conn' = m.conn
                /\ trace' = Append(trace, m.event)
                /\ IF m.returns
                   THEN /\ loc' = [loc EXCEPT !.coverage = m.results, !.source = source]
                        /\ pc' = loc.cont
                   ELSE IF source = 4
                        THEN /\ loc' = [loc EXCEPT !.coverage = <<>>, !.source = 0]
                             /\ pc' = loc.cont
                        ELSE /\ loc' = [loc EXCEPT !.next = source + 1]
                             /\ UNCHANGED pc
    /\ UNCHANGED <<covRows, req, result>>
    /\ UNCHANGED <<queueItems, runs>>

(***************************************************************************)
(* Coverage arithmetic of the report producers.                            *)
(***************************************************************************)
RECURSIVE SumCovered(_)
SumCovered(coverage_results) ==
    IF coverage_results = <<>>
    THEN 0
    ELSE Head(coverage_results).NumLinesCovered + SumCovered(Tail(coverage_results))

RECURSIVE SumLines(_)
SumLines(coverage_results) ==
    IF coverage_results = <<>>
    THEN 0
    ELSE Head(coverage_results).NumLinesCovered + Head(coverage_results).NumLinesUncovered
             + SumLines(Tail(coverage_results))

\* the ratio taken against the uncovered lines instead of all lines
PercentageOfUncovered(covered, total) ==
    IF total = 0
    THEN -1
    ELSE (1000 * covered) \div Max(total - covered, 1)

\* f"{covered / total * 100:.1f}" and round(covered / total * 100, 1), in tenths
\* of a percent: the nearest tenth, a tie going to the even one.  -1 stands for
\* the ZeroDivisionError of a zero total.
Percentage(covered, total) ==
    IF total = 0
    THEN -1
    ELSE LET q == (1000 * covered) \div total
             r == (1000 * covered) % total
         IN IF 2 * r > total \/ (2 * r = total /\ q % 2 = 1) THEN q + 1 ELSE q

\* server.py:518, 849, 1239: "... if total_lines > 0 else 0"
OverallCoverage(covered_lines, total_lines) ==
    IF total_lines > 0 THEN Percentage(covered_lines, total_lines) ELSE 0

ListsEveryUnit(total) == TRUE

\* server.py:529, 825, 1359: "if total > 0", the guard of a unit's line
ListsUnit(total) == total > 0

Take(s, n) == SubSeq(s, 1, IF Len(s) < n THEN Len(s) ELSE n)

\* the line of one unit in a report
UnitLine(coverage) ==
    LET covered == coverage.NumLinesCovered
        total == coverage.NumLinesCovered + coverage.NumLinesUncovered
    IN [Name |-> coverage.Name, percentage |-> Percentage(covered, total),
        covered |-> covered, total |-> total]

RECURSIVE UnitLines(_)
UnitLines(coverage_results) ==
    IF coverage_results = <<>>
    THEN <<>>
    ELSE (IF ListsUnit(Head(coverage_results).NumLinesCovered
                         + Head(coverage_results).NumLinesUncovered)
          THEN <<UnitLine(Head(coverage_results))>> ELSE <<>>)
             \o UnitLines(Tail(coverage_results))

RECURSIVE SelectLines(_, _)
SelectLines(lines, bands) ==
    IF lines = <<>>
    THEN <<>>
    ELSE (IF Head(lines).band \in bands THEN <<Head(lines)>> ELSE <<>>)
             \o SelectLines(Tail(lines), bands)

\* a computed line divided by zero
Failed(lines) == \E i \in 1..Len(lines) : lines[i].percentage < 0

\* server.py:536-541: percentage >= 85 is high, >= 75 medium, else low
OrgBand(line) ==
    IF 100 * line.covered >= 85 * line.total THEN "high"
    ELSE IF 100 * line.covered >= 75 * line.total THEN "medium" ELSE "low"

\* what a report says: units is the coverage list it was computed from, and
\* an overall_coverage of -1 is a report that shows none.  Without test
\* results the completed-run report keeps its summary of counts
\* (server.py:1242-1253), and the other producers have no results section
\* (server.py:717, no else branch)
Report(producer, coverage_results, total_lines, covered_lines, overall, section, listing, tests) ==
    [section |-> "report", producer |-> producer,
     units |-> coverage_results, total_classes |-> Len(coverage_results),
     total_lines |-> total_lines, covered_lines |-> covered_lines,
     overall_coverage |-> overall,
     coverage_section |-> section, listing |-> listing,
     total_tests |-> Len(tests), passed_tests |-> Count(tests, "Pass"),
     failed_tests |-> Count(tests, "Fail"),
     results_section |-> IF tests # <<>> THEN "details"
                         ELSE IF producer = "format_comprehensive_test_results"
                              THEN "summary" ELSE "omitted"]

\* get_current_org_coverage after its connection check, server.py:504-596
OrgCoverageOutcome(coverage_results) ==
    LET total_lines == SumLines(coverage_results)
        covered_lines == SumCovered(coverage_results)
        lines == UnitLines(coverage_results)
        banded == [i \in 1..Len(lines) |->
                     [Name |-> lines[i].Name, percentage |-> lines[i].percentage,
                      covered |-> lines[i].covered, total |-> lines[i].total,
                      band |-> OrgBand(lines[i])]]
        listing == Take(SelectLines(banded, {"high"}), 10)
                     \o Take(SelectLines(banded, {"medium"}), 5)
                     \o Take(SelectLines(banded, {"low"}), 5)
    IN IF coverage_results = <<>>
       THEN [Outcome("org_coverage", TRUE, "absent", "absent")
                EXCEPT !.report = Report("get_current_org_coverage", <<>>, 0, 0, -1,
                                         "no_data", <<>>, <<>>)]
       ELSE IF Failed(lines)
            THEN Outcome("coverage_exception", FALSE, "absent", "absent")
            ELSE [Outcome("org_coverage", TRUE, "absent", "absent")
                     EXCEPT !.report =
                        Report("get_current_org_coverage", coverage_results, total_lines,
                               covered_lines, OverallCoverage(covered_lines, total_lines),
                               "details", listing, <<>>)]

\* the coverage part of check_test_status_and_coverage, server.py:811-863
StatusCoverageOutcome(test_results, coverage_data) ==
    LET lines == UnitLines(coverage_data)
        total_covered == SumCovered(coverage_data)
        total_lines == SumLines(coverage_data)
        found_coverage == lines # <<>>
        section == IF coverage_data = <<>> THEN "no_data"
                   ELSE IF found_coverage THEN "details" ELSE "no_coverage_found"
    IN IF Failed(lines)
       THEN Outcome("status_exception", FALSE, "absent", "absent")
       ELSE [Outcome(IF test_results # <<>> THEN "complete_with_details"
                     ELSE "coverage_only", TRUE, "absent", "absent")
                EXCEPT !.report =
                   Report("check_test_status_and_coverage", coverage_data, total_lines,
                          total_covered,
                          IF found_coverage THEN OverallCoverage(total_covered, total_lines)
                          ELSE -1,
                          section, lines, test_results)]

\* a stable insertion of line into lines, which are in ascending percentage
RECURSIVE InsertByPercentage(_, _)
InsertByPercentage(lines, line) ==
    IF lines = <<>>
    THEN <<line>>
    ELSE IF line.covered * Head(lines).total < Head(lines).covered * line.total
         THEN <<line>> \o lines
         ELSE <<Head(lines)>> \o InsertByPercentage(Tail(lines), line)

\* server.py:1373: coverage_with_percentage.sort(key=percentage)
RECURSIVE SortByPercentage(_)
SortByPercentage(lines) ==
    IF lines = <<>>
    THEN <<>>
    ELSE InsertByPercentage(SortByPercentage(SubSeq(lines, 1, Len(lines) - 1)),
                            lines[Len(lines)])

\* format_comprehensive_test_results once its coverage is settled,
\* server.py:1228-1434
FormatOutcome(test_results, coverage_results, job_id, execution_method) ==
    LET total_lines == SumLines(coverage_results)
        covered_lines == SumCovered(coverage_results)
        lines == UnitLines(coverage_results)
    IN IF Failed(lines)
       THEN Outcome("format_exception", FALSE, "absent", "absent")
       ELSE [Outcome("completed", TRUE, execution_method, job_id)
                EXCEPT !.report =
                   Report("format_comprehensive_test_results", coverage_results,
                          total_lines, covered_lines,
                          OverallCoverage(covered_lines, total_lines),
                          IF coverage_results # <<>> THEN "details" ELSE "not_available",
                          Take(SortByPercentage(lines), 15), test_results)]

(***************************************************************************)
(* format_comprehensive_test_results, server.py:1220-1437.                 *)
(***************************************************************************)
\* a report step that returns out: a failure of the waited run is a strategy
\* without success, and run_apex_tests_comprehensive goes on to analysis mode
\* (server.py:961-965)
ReturnToSubmit(out) ==
    IF out.success
    THEN Return(out)
    ELSE /\ pc' = "analysis"
         /\ UNCHANGED <<loc, result>>

FormatResults ==
    /\ pc \in {"format", "format_report"}
    /\ IF pc = "format" /\ loc.coverage = <<>> /\ loc.job_id # "None"
       THEN /\ pc' = "coverage"
            /\ trace' = <<>>
            /\ loc' = EnterCoverage(loc, loc.job_id, req.class_names, "format_report")
            /\ UNCHANGED result
       ELSE /\ ReturnToSubmit(FormatOutcome(loc.tests, loc.coverage, loc.job_id,
                                            "Async_Complete"))
            /\ UNCHANGED trace
    /\ UNCHANGED <<sf_conn, covRows, req>>
    /\ UNCHANGED <<queueItems, runs>>

(***************************************************************************)
(* get_current_org_coverage, server.py:498-596.                            *)
(***************************************************************************)
NoClasses ==
    [op |-> "get_current_org_coverage", class_names |-> <<>>, test_level |-> "none",
     async_execution |-> FALSE, code_coverage |-> TRUE]

GetCurrentOrgCoverage ==
    /\ pc = "idle"
    /\ \E check \in ConnChecks :
          LET c == ensure_connection(sf_conn, check.queryOk, check.attempts)
          IN /\ sf_conn' = c.conn
             /\ req' = NoClasses
             /\ trace' = <<>>
             /\ IF ~c.ok
                THEN Return(Outcome("connection_failed", FALSE, "absent", "absent"))
                ELSE /\ pc' = "coverage"
                     /\ loc' = EnterCoverage(InitLoc, "None", <<>>, "org_report")
                     /\ result' = NoResult
    /\ UNCHANGED <<covRows>>
    /\ UNCHANGED <<queueItems, runs>>

OrgReport ==
    /\ pc = "org_report"
    /\ Return(OrgCoverageOutcome(loc.coverage))
    /\ UNCHANGED <<sf_conn, covRows, req, trace>>
    /\ UNCHANGED <<queueItems, runs>>

(***************************************************************************)
(* check_test_status_and_coverage, server.py:680-894.                      *)
(***************************************************************************)
JobAnswers == {"queue_item", "async_job", "none", "queue_error", "job_error"}

\* get_recent_test_job_id, server.py:214-261
get_recent_test_job_id(conn, check, found) ==
    LET c == ensure_connection(conn, check.queryOk, check.attempts)
    IN IF ~c.ok
       THEN [job_id |-> "None", conn |-> c.conn, events |-> <<>>]
       ELSE IF found = "queue_error"
            THEN [job_id |-> "None", conn |-> c.conn,
                  events |-> <<Ev("recent_queue_query_failed")>>]
            ELSE IF found = "queue_item"
                 THEN [job_id |-> JobId, conn |-> c.conn,
                       events |-> <<Ev("recent_queue_query")>>]
                 ELSE IF found = "job_error"
                      THEN [job_id |-> "None", conn |-> c.conn,
                            events |-> <<Ev("recent_queue_query"),
                                         Ev("recent_job_query_failed")>>]
                      ELSE [job_id |-> IF found = "async_job" THEN JobId ELSE "None",
                            conn |-> c.conn,
                            events |-> <<Ev("recent_queue_query"), Ev("recent_job_query")>>]

CheckTestStatusAndCoverage ==
    /\ pc = "idle"
    /\ \E class_names \in ClassNameLists, check \in ConnChecks :
          LET c == ensure_connection(sf_conn, check.queryOk, check.attempts)
          IN /\ req' = [op |-> "check_test_status_and_coverage",
                        class_names |-> class_names, test_level |-> "none",
                        async_execution |-> FALSE, code_coverage |-> TRUE]
             /\ trace' = <<>>
             /\ IF ~c.ok
                THEN /\ sf_conn' = c.conn
                     /\ Return(Outcome("connection_failed", FALSE, "absent", "absent"))
                ELSE IF class_names # <<>>
                     THEN /\ sf_conn' = c.conn
                          /\ pc' = "status_dedup"
                          /\ loc' = InitLoc
                          /\ result' = NoResult
                     ELSE \* server.py:886-887: get_current_org_coverage()
                          \E check2 \in ConnChecks :
                             LET c2 == ensure_connection(c.conn, check2.queryOk,
                                                         check2.attempts)
                             IN /\ sf_conn' = c2.conn
                                /\ IF ~c2.ok
                                   THEN Return(Outcome("connection_failed", FALSE,
                                                       "absent", "absent"))
                                   ELSE /\ pc' = "coverage"
                                        /\ loc' = EnterCoverage(InitLoc, "None", <<>>,
                                                                "org_report")
                                        /\ result' = NoResult
    /\ UNCHANGED <<covRows>>
    /\ UNCHANGED <<queueItems, runs>>

\* server.py:687-697
StatusDedup ==
    /\ pc = "status_dedup"
    /\ \E check \in ConnChecks, queueAnswer \in QueryAnswers, jobAnswer \in QueryAnswers,
          queue \in QueueStates, job \in BOOLEAN :
          LET test_status == check_test_execution_status(req.class_names, sf_conn, check,
                                 queueAnswer, jobAnswer, queue, job)
          IN /\ sf_conn' = test_status.conn
             /\ trace' = trace \o test_status.events
             /\ IF test_status.status = "running"
                THEN Return([Outcome("status_running", TRUE, "absent", "absent")
                                EXCEPT !.classes = test_status.classes])
                ELSE /\ pc' = "status_job"
                     /\ UNCHANGED <<loc, result>>
    /\ UNCHANGED <<covRows, req>>
    /\ UNCHANGED <<queueItems, runs>>

\* server.py:702: job_id = get_recent_test_job_id(class_names)
StatusJob ==
    /\ pc = "status_job"
    /\ \E check \in ConnChecks, found \in JobAnswers :
          LET r == get_recent_test_job_id(sf_conn, check, found)
          IN /\ sf_conn' = r.conn
             /\ trace' = trace \o r.events
             /\ loc' = [loc EXCEPT !.job_id = r.job_id, !.results_job = r.job_id]
             /\ pc' = "status_results"
    /\ UNCHANGED <<covRows, req, result>>
    /\ UNCHANGED <<queueItems, runs>>

\* test results as a query returns them: it raises, or finds rows
ResultAnswers ==
    {[fails |-> TRUE, rows |-> <<>>]}
        \cup {[fails |-> FALSE, rows |-> t] : t \in TestResultSamples}

\* get_test_results_for_classes, server.py:626-634: its connection check
StatusResults ==
    /\ pc = "status_results"
    /\ \E check \in ConnChecks :
          LET c == ensure_connection(sf_conn, check.queryOk, check.attempts)
          IN /\ sf_conn' = c.conn
             /\ IF ~c.ok
                THEN /\ pc' = "coverage"
                     /\ trace' = <<>>
                     /\ loc' = EnterCoverage([loc EXCEPT !.tests = <<>>], loc.job_id,
                                             req.class_names, "status_report")
                ELSE /\ pc' = IF loc.results_job = "None"
                              THEN "status_results_job" ELSE "status_results_query"
                     /\ UNCHANGED <<loc, trace>>
    /\ UNCHANGED <<covRows, req, result>>
    /\ UNCHANGED <<queueItems, runs>>

\* server.py:632-634: without a job id the most recent one is looked up again
StatusResultsJob ==
    /\ pc = "status_results_job"
    /\ \E check \in ConnChecks, found \in JobAnswers :
          LET r == get_recent_test_job_id(sf_conn, check, found)
          IN /\ sf_conn' = r.conn
             /\ trace' = trace \o r.events
             /\ loc' = [loc EXCEPT !.results_job = r.job_id]
             /\ pc' = "status_results_query"
    /\ UNCHANGED <<covRows, req, result>>
    /\ UNCHANGED <<queueItems, runs>>

\* server.py:636-677: the results of the job, else the recent results
get_test_results_for_classes(conn, job_id, byJob, recent) ==
    IF job_id # "None" /\ Raises(conn, IF byJob.fails THEN "error" ELSE "ok")
    THEN [test_results |-> <<>>, events |-> <<Ev("job_results_query_failed")>>]
    ELSE LET first == IF job_id # "None" THEN <<Ev("job_results_query")>> ELSE <<>>
         IN IF job_id # "None" /\ byJob.rows # <<>>
            THEN [test_results |-> byJob.rows, events |-> first]
            ELSE IF Raises(conn, IF recent.fails THEN "error" ELSE "ok")
                 THEN [test_results |-> <<>>,
                       events |-> first \o <<Ev("recent_results_query_failed")>>]
                 ELSE [test_results |-> recent.rows,
                       events |-> first \o <<Ev("recent_results_query")>>]

StatusResultsQuery ==
    /\ pc = "status_results_query"
    /\ \E byJob \in ResultAnswers, recent \in ResultAnswers :
          LET r == get_test_results_for_classes(sf_conn, loc.results_job, byJob, recent)
          IN /\ trace' = <<>>
             /\ pc' = "coverage"
             /\ loc' = EnterCoverage([loc EXCEPT !.tests = r.test_results], loc.job_id,
                                     req.class_names, "status_report")
    /\ UNCHANGED <<sf_conn, covRows, req, result>>
    /\ UNCHANGED <<queueItems, runs>>

\* server.py:709-884: the response built from the results and the coverage
StatusReport ==
    /\ pc = "status_report"
    /\ Return(StatusCoverageOutcome(loc.tests, loc.coverage))
    /\ UNCHANGED <<sf_conn, covRows, req, trace>>
    /\ UNCHANGED <<queueItems, runs>>

(***************************************************************************)
(* test_connection, server.py:1701-1726: the handle is initialized anew.   *)
(***************************************************************************)
TestConnection ==
    /\ pc = "idle"
    /\ \E attempts \in InitAttempts :
          LET c == initialize_salesforce(sf_conn, attempts)
          IN /\ sf_conn' = c.conn
             /\ req' = [NoClasses EXCEPT !.op = "test_connection", !.code_coverage = FALSE]
             /\ trace' = <<>>
             /\ Return(Outcome(IF c.ok THEN "SUCCESS" ELSE "FAILED", c.ok,
                               "absent", "absent"))
    /\ UNCHANGED <<covRows>>
    /\ UNCHANGED <<queueItems, runs>>

(***************************************************************************)
(* The engine from its start: no handle, no request.                       *)
(***************************************************************************)
sampleRows ==
    <<[Name |-> nAcct, NumLinesCovered |-> 1, NumLinesUncovered |-> 1,
       TestClassName |-> "AcctTest", TestMethodName |-> "m1"],
      [Name |-> nAcctTest, NumLinesCovered |-> 1, NumLinesUncovered |-> 0,
       TestClassName |-> "AcctTest", TestMethodName |-> "m1"]>>

Init ==
    /\ sf_conn = "None"
    /\ covRows = sampleRows
    /\ pc = "idle"
    /\ req = NoRequest
    /\ loc = InitLoc
    /\ trace = <<>>
    /\ result = NoResult
    /\ queueItems = <<>>
    /\ runs = NoRuns

Next ==
    \/ RunApexTests
    \/ SubmitDedup
    \/ SubmitResolve
    \/ SubmitEnqueue
    \/ SubmitTooling
    \/ SubmitAnalysis
    \/ MonitorPoll
    \/ JobResults
    \/ CoverageSource
    \/ FormatResults
    \/ GetCurrentOrgCoverage
    \/ OrgReport
    \/ CheckTestStatusAndCoverage
    \/ StatusDedup
    \/ StatusJob
    \/ StatusResults
    \/ StatusResultsJob
    \/ StatusResultsQuery
    \/ StatusReport
    \/ TestConnection

Spec == Init /\ [][Next]_vars

(***************************************************************************)
(* The aggregator and the report producers over every coverage table.  A   *)
(* behaviour starts where a caller enters the aggregator:                  *)
(* get_current_org_coverage, check_test_status_and_coverage with and       *)
(* without a job, and the results of a waited run with and without the     *)
(* coverage flag.                                                          *)
(***************************************************************************)
statusRequest ==
    [op |-> "check_test_status_and_coverage", class_names |-> <<"FooTest">>,
     test_level |-> "none", async_execution |-> FALSE, code_coverage |-> TRUE]

waitedRequest(code_coverage) ==
    [op |-> "run_apex_tests_comprehensive", class_names |-> <<"FooTest">>,
     test_level |-> "RunLocalTests", async_execution |-> FALSE,
     code_coverage |-> code_coverage]

waitedLoc ==
    [InitLoc EXCEPT !.job_id = JobId, !.class_records = <<"FooTest">>,
                    !.tests = <<"Pass", "Fail">>]

CoverageEntries ==
    {[pc |-> "coverage", req |-> NoClasses, trace |-> <<>>,
      loc |-> EnterCoverage(InitLoc, "None", <<>>, "org_report")],
     [pc |-> "coverage", req |-> statusRequest, trace |-> <<>>,
      loc |-> EnterCoverage(InitLoc, "None", <<"FooTest">>, "status_report")],
     [pc |-> "coverage", req |-> statusRequest, trace |-> <<>>,
      loc |-> EnterCoverage([InitLoc EXCEPT !.job_id = JobId, !.results_job = JobId,
                                            !.tests = <<"Pass">>],
                            JobId, <<"FooTest">>, "status_report")],
     [pc |-> "coverage", req |-> waitedRequest(TRUE), trace |-> <<>>,
      loc |-> EnterCoverage(waitedLoc, JobId, <<"FooTest">>, "format")],
     [pc |-> "format", req |-> waitedRequest(FALSE), trace |-> <<Ev("results_query")>>,
      loc |-> waitedLoc]}

InitCov ==
    /\ sf_conn = "Live"
    /\ covRows \in CoverageRowSeqs
    /\ \E entry \in CoverageEntries :
          /\ pc = entry.pc
          /\ req = entry.req
          /\ loc = entry.loc
          /\ trace = entry.trace
    /\ result = NoResult
    /\ queueItems = <<>>
    /\ runs = NoRuns

NextCov ==
    \/ CoverageSource
    \/ FormatResults
    \/ OrgReport
    \/ StatusReport

SpecCov == InitCov /\ [][NextCov]_vars

(***************************************************************************)
(* Properties.                                                             *)
(***************************************************************************)
runOp == "run_apex_tests_comprehensive"

\* some round trip of the trace is one of ops
HasOp(ops) == \E i \in 1..Len(trace) : trace[i].op \in ops

IsCreate(e) == e.op = "create"
IsCreated(e) == e.op = "create" /\ e.outcome = "created"
IsStatusRead(e) == e.op \in {"status_read", "status_read_failed"}

\* the round trips of the strategies: direct enqueue, managed request, analysis
StrategyOps ==
    {"enqueue_class_query", "enqueue_class_query_failed", "create",
     "tooling_class_query", "tooling_class_query_failed", "post",
     "analysis_class_query", "analysis_class_query_failed"}

\* the aggregator has returned to the report producer that called it
AtReport == pc \in {"org_report", "status_report", "format", "format_report"}

\* C1: when the dedup query of a submission finds at least one Queued or
\* Processing queue entry of a requested unit, the call has returned the
\* already-running outcome (success false) listing the units of the entries
\* found, and the call created no queue item and sent no submission request.
C1_DedupStopsSubmission ==
    \A i \in 1..Len(trace) :
        (req.op = runOp /\ trace[i].op = "queue_query" /\ trace[i].rows > 0)
            => /\ pc = "idle"
               /\ result.kind = "already_running"
               /\ ~result.success
               /\ Len(result.classes) = trace[i].rows
               /\ \A k \in 1..Len(result.classes) :
                     \E j \in 1..Len(req.class_names) :
                        result.classes[k] = req.class_names[j]
               /\ ~HasOp({"create", "post"})

C1_Witness ==
    /\ req.op = runOp
    /\ req.class_names = <<"FooTest", "BarTest">>
    /\ result.kind = "already_running"
    /\ result.classes = <<"FooTest", "BarTest">>

\* C2 as stated: a poller run that returns the timed-out outcome has issued
\* exactly max_polls status reads, and the outcome is a success carrying the
\* job id.
C2_TimedOutAfterBudget ==
    (req.op = runOp /\ result.kind = "timed_out")
        => /\ Len(SelectSeq(trace, IsStatusRead)) = max_polls
           /\ result.success
           /\ result.job_id = JobId

\* C3: the record the per-method source or the recency-window source keeps
\* for a unit carries the elementwise maximum of the covered and of the
\* uncovered counts of the unit's rows, and merging one more row never lowers
\* a count already held.
C3_MergeIsElementwiseMax ==
    /\ (AtReport /\ loc.source \in {1, 3})
          => \A k \in 1..Len(loc.coverage) :
                LET e == loc.coverage[k]
                    rows == {i \in 1..Len(covRows) : covRows[i].Name = e.Name}
                IN /\ \E i \in rows : covRows[i].NumLinesCovered = e.NumLinesCovered
                   /\ \E i \in rows : covRows[i].NumLinesUncovered = e.NumLinesUncovered
                   /\ \A i \in rows :
                         /\ covRows[i].NumLinesCovered <= e.NumLinesCovered
                         /\ covRows[i].NumLinesUncovered <= e.NumLinesUncovered
    /\ \A n \in 0..(Len(covRows) - 1) :
          LET before == AggregateDetailed(<<>>, SubSeq(covRows, 1, n))
              after == AggregateDetailed(<<>>, SubSeq(covRows, 1, n + 1))
              beforeRecent == AggregateRecent(<<>>, SubSeq(covRows, 1, n))
              afterRecent == AggregateRecent(<<>>, SubSeq(covRows, 1, n + 1))
          IN /\ \A k \in 1..Len(before) :
                   /\ after[k].Name = before[k].Name
                   /\ after[k].NumLinesCovered >= before[k].NumLinesCovered
                   /\ after[k].NumLinesUncovered >= before[k].NumLinesUncovered
             /\ \A k \in 1..Len(beforeRecent) :
                   /\ afterRecent[k].Name = beforeRecent[k].Name
                   /\ afterRecent[k].NumLinesCovered >= beforeRecent[k].NumLinesCovered
                   /\ afterRecent[k].NumLinesUncovered >= beforeRecent[k].NumLinesUncovered

C3_Witness ==
    /\ pc = "format"
    /\ loc.source = 1
    /\ Len(covRows) = 2
    /\ covRows[1].Name = nAcct
    /\ covRows[2].Name = nAcct
    /\ covRows[1].NumLinesCovered > covRows[2].NumLinesCovered
    /\ covRows[1].NumLinesUncovered < covRows[2].NumLinesUncovered
    /\ Len(loc.coverage) = 1

\* C4: whichever source produced it, the list the aggregator returns holds no
\* record of a unit whose name ends in "Test" (which covers "_Test").
C4_NoTestUnitInReport ==
    AtReport => \A k \in 1..Len(loc.coverage) : ~endswith(loc.coverage[k].Name, sfxTest)

C4_Witness ==
    /\ AtReport
    /\ loc.source = 4
    /\ loc.coverage # <<>>
    /\ \E i \in 1..Len(covRows) :
          /\ covRows[i].Name = nAcctTest
          /\ covRows[i].NumLinesCovered > 0

\* source 1 was asked and found rows
Source1FoundRows ==
    \E i \in 1..Len(trace) :
        trace[i].op = "coverage_query" /\ trace[i].source = 1 /\ trace[i].rows > 0

\* a query was sent to one of the sources
Queried(sources) ==
    \E i \in 1..Len(trace) :
        trace[i].op = "coverage_query" /\ trace[i].source \in sources /\ trace[i].sent

\* C5 as stated: when source 1 returns at least one row, sources 3 and 4 are
\* not queried in that call.
C5_RowsEndTheChain == Source1FoundRows => ~Queried({3, 4})

\* C5, amended: when source 1 returns at least one row of a unit that is not a
\* test unit, no other source is queried in that call; when every row it
\* returns is a test unit's, its result is empty and the call goes on to
\* source 2.
C5_NonTestRowsEndTheChain ==
    /\ (Source1FoundRows /\ \E i \in 1..Len(covRows) : ~endswith(covRows[i].Name, sfxTest))
          => /\ ~HasOp({"coverage_query"}) \/ ~Queried({2, 3, 4})
             /\ pc # "coverage"
             /\ loc.source = 1 \/ pc = "idle"
    /\ (Source1FoundRows /\ \A i \in 1..Len(covRows) : endswith(covRows[i].Name, sfxTest))
          => \/ pc = "coverage" /\ loc.next = 2
             \/ \E i \in 1..Len(trace) :
                   trace[i].op = "coverage_query" /\ trace[i].source = 2

C5_Witness ==
    /\ Source1FoundRows
    /\ loc.source = 1
    /\ pc = "status_report"
    /\ Len(covRows) = 2
    /\ covRows[1].Name = nAcct
    /\ covRows[2].Name = nAcctTest

\* C6: direct enqueueing attempts one creation per class its resolution query
\* found, in order and whatever the outcome of the creations before; it
\* succeeds exactly when at least one creation succeeded, and then the call
\* returns success with execution method ApexTestQueueItem and the number of
\* successful creations as its enqueued count.
C6_OneCreationPerResolvedUnit ==
    \A i \in 1..Len(trace) :
        (req.op = runOp /\ trace[i].op = "enqueue_class_query")
            => LET creates == SelectSeq(trace, IsCreate)
                   created == Len(SelectSeq(trace, IsCreated))
               IN /\ req.test_level = "RunSpecifiedTests"
                  /\ Len(creates) = Len(trace[i].records)
                  /\ \A k \in 1..Len(creates) : creates[k].unit = trace[i].records[k]
                  /\ (created > 0) <=> (pc = "idle" /\ result.kind = "enqueued")
                  /\ (created > 0)
                        => /\ result.success
                           /\ result.execution_method = "ApexTestQueueItem"
                           /\ result.enqueued_classes = created
                           /\ Len(result.queue_items) = created

C6_Witness ==
    /\ req.op = runOp
    /\ result.kind = "enqueued"
    /\ result.enqueued_classes = 1
    /\ Len(SelectSeq(trace, IsCreate)) = 2
    /\ SelectSeq(trace, IsCreate)[1].outcome = "error"

\* C9 as stated: a submission under RunSpecifiedTests without class names has
\* failed with the missing-units error.
C9_MissingUnitsError ==
    (req.op = runOp /\ req.test_level = "RunSpecifiedTests" /\ req.class_names = <<>>)
        => result.kind = "missing_units"

\* C9, amended: a submission under RunSpecifiedTests without class names fails
\* at once and makes no dedup query, no resolution, no creation and no
\* submission request; the failure is the missing-units error when the
\* connection check of the call succeeded, and the connection failure when it
\* did not.
C9_FailsBeforeAnyRoundTrip ==
    (req.op = runOp /\ req.test_level = "RunSpecifiedTests" /\ req.class_names = <<>>)
        => /\ pc = "idle"
           /\ ~result.success
           /\ trace = <<>>
           /\ result.kind = IF sf_conn = "Live" THEN "missing_units" ELSE "connection_failed"

C9_Witness ==
    /\ req.op = runOp
    /\ req.test_level = "RunSpecifiedTests"
    /\ req.class_names = <<>>
    /\ result.kind = "missing_units"

\* C10: when the resolution query of a submission finds none of the requested
\* classes, the call has failed with the not-found error naming the requested
\* classes, and no strategy (direct enqueue, managed request, analysis) made a
\* round trip.
C10_NotFoundStopsSubmission ==
    \A i \in 1..Len(trace) :
        (req.op = runOp /\ trace[i].op = "class_query" /\ trace[i].records = <<>>)
            => /\ pc = "idle"
               /\ result.kind = "not_found"
               /\ ~result.success
               /\ result.classes = req.class_names
               /\ ~HasOp(StrategyOps)

C10_Witness ==
    /\ req.op = runOp
    /\ result.kind = "not_found"
    /\ req.class_names = <<"FooTest", "BarTest">>
    /\ HasOp({"queue_query"})

\* the units of a report that have lines, and the exception outcomes of the
\* report producers
UnitTotal(unit) == unit.NumLinesCovered + unit.NumLinesUncovered
ReportFailures == {"coverage_exception", "status_exception", "format_exception"}
statusProducer == "check_test_status_and_coverage"

RECURSIVE CoveredUpTo(_, _)
CoveredUpTo(units, n) ==
    IF n = 0 THEN 0 ELSE units[n].NumLinesCovered + CoveredUpTo(units, n - 1)

RECURSIVE LinesUpTo(_, _)
LinesUpTo(units, n) ==
    IF n = 0 THEN 0 ELSE UnitTotal(units[n]) + LinesUpTo(units, n - 1)

\* tenths is covered * 100 / total to one decimal: it is off by at most half
\* a tenth
IsPercentage(tenths, covered, total) ==
    LET error == tenths * total - 1000 * covered
    IN 2 * error <= total /\ -2 * error <= total

\* C8: in every report the percentage of a listed unit is covered * 100 /
\* (covered + uncovered) of that unit's counts, to one decimal (80 and 20 give
\* 80.0); the org-level lines are the sums of the covered and of all lines over
\* the records of the report, and the org-level ratio is computed from the two
\* sums.
C8_PercentagesAndTotals ==
    /\ Percentage(80, 80 + 20) = 800
    /\ result.report.section = "report"
          => LET r == result.report
             IN /\ r.covered_lines = CoveredUpTo(r.units, Len(r.units))
                /\ r.total_lines = LinesUpTo(r.units, Len(r.units))
                /\ r.total_lines > 0
                      => IsPercentage(r.overall_coverage, r.covered_lines, r.total_lines)
                /\ \A i \in 1..Len(r.listing) :
                      /\ IsPercentage(r.listing[i].percentage, r.listing[i].covered,
                                      r.listing[i].total)
                      /\ \E k \in 1..Len(r.units) :
                            /\ r.units[k].Name = r.listing[i].Name
                            /\ r.units[k].NumLinesCovered = r.listing[i].covered
                            /\ UnitTotal(r.units[k]) = r.listing[i].total

C8_Witness ==
    /\ result.report.section = "report"
    /\ result.report.producer = "get_current_org_coverage"
    /\ Len(result.report.listing) = 2
    /\ result.report.listing[1].percentage = 667
    /\ result.report.listing[2].percentage = 500
    /\ result.report.covered_lines = 3
    /\ result.report.total_lines = 5
    /\ result.report.overall_coverage = 600

\* the records of the resolution query of the submission (server.py:939), when
\* the trace holds it
Resolved ==
    IF \E i \in 1..Len(trace) : trace[i].op = "class_query"
    THEN (CHOOSE e \in {trace[i] : i \in 1..Len(trace)} : e.op = "class_query").records
    ELSE <<>>

Names(s) == {s[i] : i \in 1..Len(s)}

\* some but not all of the requested units resolved, and the later class
\* queries of the submission found the same classes
PartlyResolved ==
    /\ req.op = runOp
    /\ Resolved # <<>>
    /\ Names(req.class_names) \ Names(Resolved) # {}
    /\ \A i \in 1..Len(trace) :
          /\ trace[i].op = "enqueue_class_query" => trace[i].records = Resolved
          /\ trace[i].op = "post" => trace[i].classIds \in {<<>>, Resolved}

\* the unit names a returned outcome carries (its classes and queue_items keys,
\* which are also the names its message lists)
NamesReported(out) == Names(out.classes) \cup Names(out.queue_items)

\* C11 as stated: when some but not all requested units resolve, queue items
\* are created and unit ids posted only for resolved units, and the outcome
\* the submission returns reports the requested names that were not found.
C11_PartialResolutionReported ==
    (PartlyResolved /\ pc = "idle")
        => /\ \A i \in 1..Len(trace) :
                 /\ IsCreate(trace[i]) => trace[i].unit \in Names(Resolved)
                 /\ trace[i].op = "post" => Names(trace[i].classIds) \subseteq Names(Resolved)
           /\ (Names(req.class_names) \ Names(Resolved)) \subseteq NamesReported(result)

\* C12 as stated: a status read of the poller that fails uses up one attempt
\* and polling goes on: unless it was the last attempt of the budget, the
\* poller is still polling after it or has made a further read.
C12_FailedReadIsInconclusive ==
    \A i \in 1..Len(trace) :
        (req.op = runOp /\ trace[i].op = "status_read_failed" /\ i < max_polls)
            => \/ pc = "polling"
               \/ \E j \in (i + 1)..Len(trace) : IsStatusRead(trace[j])

\* the execution_method values of the return statements of a submission
\* (server.py:1121, 1040, 1058, 1498, 1175, 1213), with the value an
\* already-running outcome would carry
ExecutionMethods ==
    {"ApexTestQueueItem", "Tooling_API_Async", "Tooling_API_Sync", "Analysis_Mode",
     "Already_Running", "Async_Timeout", "Async_Complete"}

\* C13 as stated: every outcome a submission returns, on every path, has a
\* success flag and an execution_method out of the listed values.
C13_OutcomeHasExecutionMethod ==
    (req.op = runOp /\ pc = "idle")
        => /\ result.success \in BOOLEAN
           /\ result.execution_method \in ExecutionMethods

\* C14 as stated: check_test_execution_status reports running only when an
\* active queue entry matches one of the requested units, and then the units
\* it reports are a non-empty subset of the requested names; test jobs of
\* other units never make it report running.
C14_RunningOnlyForRequestedUnits ==
    (req.op = runOp /\ result.kind = "already_running")
        => /\ result.classes # <<>>
           /\ Names(result.classes) \subseteq Names(req.class_names)
           /\ \E i \in 1..Len(trace) : trace[i].op = "queue_query" /\ trace[i].rows > 0

\* C15: a step that starts a submission and leaves the engine without a
\* validated handle (the connection could not be established, or the handle
\* failed validation and the reconnect failed) returns the connection failure
\* at once: success is false and the call has made no dedup query, no
\* resolution query, no creation and no submission request.
C15_ConnectionFailureIsFatal ==
    [][(pc = "idle" /\ req'.op = runOp /\ sf_conn' # "Live")
          => /\ pc' = "idle"
             /\ result'.kind = "connection_failed"
             /\ ~result'.success
             /\ trace' = <<>>]_vars

C15_Witness ==
    /\ req.op = runOp
    /\ req.class_names = <<"FooTest">>
    /\ result.kind = "connection_failed"
    /\ sf_conn = "Stale"

\* the failures that end a call: the connection failure, and an exception of
\* the submission, of a strategy or of a report producer
FatalErrors ==
    {"connection_failed", "exception", "analysis_exception", "coverage_exception",
     "status_exception", "format_exception"}

\* C16 as stated: every fatal error outcome returned to the caller carries the
\* text of the failure that caused it.
C16_FatalErrorCarriesCause ==
    (pc = "idle" /\ result.kind \in FatalErrors) => result.cause # "absent"

\* the reports C17 is about, returned with success
SectionedReport ==
    /\ pc = "idle"
    /\ result.success
    /\ result.report.section = "report"
    /\ result.report.producer \in {statusProducer, "format_comprehensive_test_results"}

\* C17 as stated: a report returned with success has its results section and
\* its coverage section, whatever the other holds; a section without data is
\* an explicit not-available message, never left out.
C17_BothSectionsPresent ==
    SectionedReport
        => /\ result.report.results_section # "omitted"
           /\ result.report.coverage_section
                 \in {"details", "no_data", "no_coverage_found", "not_available"}

(***************************************************************************)
(* Submissions that meet at the platform's test queue.  Each is the        *)
(* coordinator of run_apex_tests_comprehensive (server.py:920-955) under   *)
(* RunSpecifiedTests; an engine serves one submission at a time            *)
(* (server.py:2885-2898), two engines are two server processes on one org. *)
(* A created ApexTestQueueItem is visible to every later query as Queued   *)
(* until the platform completes it.                                        *)
(***************************************************************************)
engineVars == <<sf_conn, covRows, pc, req, loc, trace, result>>

ActiveStatuses == {"Queued", "Processing"}

\* the number of Queued/Processing rows per class that the query of
\* server.py:172-179 reads
ActiveQueue(items) ==
    [u \in UnitNames |->
        Cardinality({i \in 1..Len(items) :
                        items[i].unit = u /\ items[i].Status \in ActiveStatuses})]

RECURSIVE CreateItemsUnlessActive(_, _, _)
CreateItemsUnlessActive(items, created, s) ==
    IF created = <<>>
    THEN items
    ELSE CreateItemsUnlessActive(
             IF ActiveQueue(items)[Head(created)] > 0
             THEN items
             ELSE Append(items, [unit |-> Head(created), by |-> s, Status |-> "Queued"]),
             Tail(created), s)

\* server.py:1098-1099: every successful ApexTestQueueItem.create adds a row,
\* whatever rows the queue holds
RECURSIVE CreateItems(_, _, _)
CreateItems(items, created, s) ==
    IF created = <<>>
    THEN items
    ELSE CreateItems(Append(items, [unit |-> Head(created), by |-> s, Status |-> "Queued"]),
                     Tail(created), s)

\* the handle of a serving engine passes its validation query
liveCheck == [queryOk |-> TRUE, attempts |-> <<"ok">>]

\* server.py:2885-2898: the engine takes the call when it serves no other
RaceSubmit(s) ==
    /\ runs[s].pc = "new"
    /\ \A t \in Submissions \ {s} :
          runs[t].engine = runs[s].engine => runs[t].pc \in {"new", "returned"}
    /\ ~MissingUnits(runs[s].class_names, "RunSpecifiedTests")
    /\ runs' = [runs EXCEPT ![s].pc = "dedup"]
    /\ UNCHANGED <<queueItems, engineVars>>

\* server.py:920-931
RaceDedup(s) ==
    /\ runs[s].pc = "dedup"
    /\ \E queueAnswer \in QueryAnswers, jobAnswer \in QueryAnswers, job \in BOOLEAN :
          LET test_status ==
                  check_test_execution_status(runs[s].class_names, "Live", liveCheck,
                      queueAnswer, jobAnswer, ActiveQueue(queueItems), job)
              read == [runs[s] EXCEPT
                          !.rows = IF queueAnswer = "error" THEN -1
                                   ELSE Len(RunningRows(runs[s].class_names,
                                                        ActiveQueue(queueItems))),
                          !.status = test_status.status,
                          !.job = queueAnswer = "ok" /\ jobAnswer = "ok" /\ job,
                          !.first = \A i \in 1..Len(queueItems) : queueItems[i].by = s]
          IN runs' = [runs EXCEPT ![s] =
                        IF AlreadyRunning(test_status)
                        THEN [read EXCEPT !.pc = "returned", !.kind = "already_running"]
                        ELSE [read EXCEPT !.pc = "resolve"]]
    /\ UNCHANGED <<queueItems, engineVars>>

\* server.py:933-949
RaceResolve(s) ==
    /\ runs[s].pc = "resolve"
    /\ \E answer \in QueryAnswers, org \in OrgStates :
          LET class_records == Existing(runs[s].class_names, org)
          IN runs' = [runs EXCEPT ![s] =
                        IF Raises("Live", answer)
                        THEN [@ EXCEPT !.pc = "returned", !.kind = "exception"]
                        ELSE IF NoneResolved(class_records)
                             THEN [@ EXCEPT !.pc = "returned", !.kind = "not_found"]
                             ELSE [@ EXCEPT !.pc = "enqueue",
                                            !.class_records = class_records]]
    /\ UNCHANGED <<queueItems, engineVars>>

\* server.py:951-955 with 1076-1137: the creations reach the queue one by one,
\* and a direct enqueue without success hands over to the managed strategies
RaceEnqueue(s) ==
    /\ runs[s].pc = "enqueue"
    /\ \E answer \in QueryAnswers, org \in OrgStates,
          outcomes \in [1..Len(runs[s].class_names) -> CreateAnswers] :
          LET r == enqueue_tests_individually(runs[s].class_names, "Live", answer,
                                              outcomes, org)
          IN /\ queueItems' = CreateItems(queueItems, r.items, s)
             /\ runs' = [runs EXCEPT ![s] =
                           IF r.out.success
                           THEN [@ EXCEPT !.pc = "returned", !.kind = r.out.kind,
                                          !.queue_items = r.out.queue_items]
                           ELSE [@ EXCEPT !.pc = "tooling"]]
    /\ UNCHANGED engineVars

\* server.py:957-965: the managed strategies and analysis mode, which create no
\* queue item themselves, return for the submission
RaceManaged(s) ==
    /\ runs[s].pc = "tooling"
    /\ \E kind \in {"async_started", "sync_done", "timed_out", "completed", "analysis",
                    "analysis_exception"} :
          runs' = [runs EXCEPT ![s].pc = "returned", ![s].kind = kind]
    /\ UNCHANGED <<queueItems, engineVars>>

\* the platform runs the tests of a queue item to their end
PlatformCompletes(i) ==
    /\ queueItems[i].Status \in ActiveStatuses
    /\ queueItems' = [queueItems EXCEPT ![i].Status = "Completed"]
    /\ UNCHANGED <<runs, engineVars>>

\* two submissions, on one engine or on two, each of a requested unit set
InitRace ==
    /\ sf_conn = "Live"
    /\ covRows = sampleRows
    /\ pc = "idle"
    /\ req = NoRequest
    /\ loc = InitLoc
    /\ trace = <<>>
    /\ result = NoResult
    /\ queueItems = <<>>
    /\ \E engine \in {1, 2}, names1 \in ClassNameLists \ {<<>>},
          names2 \in ClassNameLists \ {<<>>} :
          runs = [s \in Submissions |->
                     IF s = 1 THEN NewRun(1, names1) ELSE NewRun(engine, names2)]

NextRace ==
    \/ \E s \in Submissions : RaceSubmit(s)
    \/ \E s \in Submissions : RaceDedup(s)
    \/ \E s \in Submissions : RaceResolve(s)
    \/ \E s \in Submissions : RaceEnqueue(s)
    \/ \E s \in Submissions : RaceManaged(s)
    \/ \E i \in 1..Len(queueItems) : PlatformCompletes(i)

SpecRace == InitRace /\ [][NextRace]_vars

\* two submissions of the same unit set served by different engines
Racing(s, t) ==
    /\ s # t
    /\ runs[s].engine # runs[t].engine
    /\ runs[s].class_names = runs[t].class_names

\* the dedup query of s was answered before a queue item of another
\* submission was visible, and no test job of other units was found
CheckedFirst(s) == runs[s].first /\ runs[s].rows >= 0 /\ ~runs[s].job

\* the rows of unit u that submission s created
ItemsOf(s, u) == {i \in 1..Len(queueItems) : queueItems[i].by = s /\ queueItems[i].unit = u}

\* C18: no lock joins the dedup query and the enqueue.  When the dedup
\* queries of two submissions of the same unit set, on two engines, both run
\* before a queue entry of either is visible, both pass the check (neither is
\* refused as already running), and when both then enqueue, each creates its
\* own queue entry for every unit it enqueued: two entries, two runs of the
\* same unit.
C18_BothPassAndCreate ==
    \A s, t \in Submissions :
        (Racing(s, t) /\ CheckedFirst(s) /\ CheckedFirst(t))
            => /\ runs[s].status \in {"not_running", "None"}
               /\ runs[s].rows = 0
               /\ runs[s].pc # "dedup"
               /\ runs[s].kind # "already_running"
               /\ (runs[s].kind = "enqueued" /\ runs[t].kind = "enqueued")
                     => \A k \in 1..Len(runs[s].queue_items) :
                           /\ Cardinality(ItemsOf(s, runs[s].queue_items[k])) = 1
                           /\ runs[s].queue_items[k] \in Names(runs[t].queue_items)
                                 => Cardinality(ItemsOf(t, runs[s].queue_items[k])) = 1

C18_Witness ==
    /\ Racing(1, 2)
    /\ CheckedFirst(1) /\ CheckedFirst(2)
    /\ runs[1].kind = "enqueued" /\ runs[2].kind = "enqueued"
    /\ runs[1].class_names = <<"FooTest">>
    /\ Len(queueItems) = 2
    /\ \A i \in 1..2 : queueItems[i].unit = "FooTest" /\ queueItems[i].Status = "Queued"

\* C19 as stated: with the submissions of one unit set served one at a time
\* by one engine, and created queue entries visible as Queued until the
\* platform completes them, no unit ever has more than one active queue
\* entry created by the engine.
C19_SingleActiveRun ==
    (runs[1].engine = runs[2].engine /\ runs[1].class_names = runs[2].class_names)
        => \A u \in UnitNames : ActiveQueue(queueItems)[u] <= 1

\* C20 as stated: whatever the connection and validation failures of the
\* calls served so far, the shared handle is never a handle that failed its
\* validation query: a failed reconnect leaves no handle (or the handle that
\* was validated before), and no later operation finds a failed one in
\* sf_conn.
C20_NoUnvalidatedHandle == sf_conn \in {"None", "Live"}

\* the place of a round trip in the strategy chain: 1 direct enqueue, 2 the
\* managed asynchronous endpoint, 3 the managed synchronous endpoint,
\* 4 analysis mode, 0 a round trip of no strategy
StrategyRank(e) ==
    CASE e.op \in {"enqueue_class_query", "enqueue_class_query_failed", "create"} -> 1
      [] e.op \in {"tooling_class_query", "tooling_class_query_failed"} -> 2
      [] e.op = "post" -> IF e.endpoint = "runTestsAsynchronous" THEN 2 ELSE 3
      [] e.op \in {"analysis_class_query", "analysis_class_query_failed"} -> 4
      [] OTHER -> 0

\* a round trip by which a strategy launched a run
Launched(e) ==
    \/ IsCreated(e)
    \/ e.op = "post" /\ e.answer = "accepted"

\* the strategy round trips of the submission keep the order of the chain,
\* no endpoint is posted to twice, and a launch is the last of them
ChainInOrder ==
    /\ \A i, j \in 1..Len(trace) :
          (i < j /\ StrategyRank(trace[i]) > 0 /\ StrategyRank(trace[j]) > 0)
              => StrategyRank(trace[i]) <= StrategyRank(trace[j])
    /\ \A i, j \in 1..Len(trace) :
          (i < j /\ trace[i].op = "post" /\ trace[j].op = "post")
              => trace[i].endpoint # trace[j].endpoint
    /\ \A i, j \in 1..Len(trace) :
          (i < j /\ Launched(trace[i]))
              => StrategyRank(trace[j]) \in {0, StrategyRank(trace[i])}

\* C21 as stated: the strategies of a submission are attempted in the order
\* direct enqueue, asynchronous endpoint, synchronous endpoint, analysis,
\* each at most once, and once a strategy has succeeded no later one is
\* attempted: analysis mode is not entered by a submission whose request the
\* asynchronous endpoint accepted.
C21_ChainStopsAtSuccess ==
    req.op = runOp
        => /\ ChainInOrder
           /\ pc = "analysis" => loc.job_id = "None"

\* the round trips that follow a job id: the retrieval of its results and the
\* coverage queries of its report
AfterJobOps == {"results_query", "results_query_failed", "coverage_query"}

\* C22 as stated: a submission returns the analysis outcome only when it
\* launched nothing: it created no queue item, no managed endpoint accepted
\* its request, and it did not go on to the results of a job it had obtained.
C22_AnalysisMeansNothingLaunched ==
    (req.op = runOp /\ pc = "idle" /\ result.kind = "analysis")
        => /\ \A i \in 1..Len(trace) : ~Launched(trace[i])
           /\ ~HasOp(AfterJobOps)

AfterPolling == {"results", "coverage", "format", "format_report", "analysis"}

\* while the poller polls it has read no terminal status, and the retrieval
\* of the results starts from a terminal status, for the job polled, before
\* any further round trip
TerminalReadEndsPolling ==
    /\ pc = "polling" => loc.status \in {"None", "none", "Processing"}
    /\ pc = "results"
          => /\ loc.status \in {"Completed", "Failed", "Aborted"}
             /\ loc.job_id = JobId
             /\ trace = <<>>

\* C24: the first status read that returns Completed, Failed or Aborted ends
\* the polling and the retrieval of the results of that job follows; after it
\* the run makes no further status read and never returns the timed-out
\* outcome; a status that is missing or not terminal keeps the poller polling
\* (or ends it by the budget) and never starts the retrieval.
C24_TerminalStatusEndsPolling ==
    /\ []TerminalReadEndsPolling
    /\ [][/\ (pc = "polling" /\ pc' = "results") => loc'.job_id = loc.job_id
          /\ (req.op = runOp /\ pc \in AfterPolling)
                => /\ pc' # "polling"
                   /\ result'.kind # "timed_out"
                   /\ \A i \in 1..Len(trace') : ~IsStatusRead(trace'[i])]_vars

C24_Witness ==
    /\ pc = "results"
    /\ loc.status = "Aborted"
    /\ req.class_names = <<"FooTest">>

\* the coverage queries of the aggregator call, in order
IsCoverageQuery(e) == e.op = "coverage_query"
CoverageQueries == SelectSeq(trace, IsCoverageQuery)

\* the aggregator is at work or has returned to the producer that called it
InAggregatorCall == pc = "coverage" \/ AtReport

\* what source alone makes of the coverage table
SourceAlone(source) == CoverageMethod(source, "Live", liveCheck, "rows", covRows).results

\* C25: the aggregator queries its sources in the order 1 (per-method, job
\* scoped), 2 (aggregate, job scoped), 3 (recency window), 4 (org-wide
\* aggregate), each at most once; without a job id sources 1 and 2 are not
\* queried; every source queried before the last one yielded nothing after
\* filtering; and the list returned is what one source alone yields (the
\* last one queried), or empty after source 4.
C25_OneSourceInOrder ==
    InAggregatorCall
        => LET q == CoverageQueries
           IN /\ \A i, j \in 1..Len(q) : i < j => q[i].source < q[j].source
              /\ loc.cov_job = "None" => \A i \in 1..Len(q) : q[i].source \notin {1, 2}
              /\ \A i \in 1..Len(q) :
                    (q[i].rows > 0 /\ (i < Len(q) \/ pc = "coverage"))
                        => SourceAlone(q[i].source) = <<>>
              /\ (AtReport /\ q # <<>>)
                    => /\ loc.source \in {0, q[Len(q)].source}
                       /\ loc.source = 0 => loc.coverage = <<>> /\ q[Len(q)].source = 4
                       /\ loc.source # 0 => /\ loc.coverage = SourceAlone(loc.source)
                                            /\ loc.coverage # <<>>

C25_Witness ==
    /\ AtReport
    /\ loc.cov_job = JobId
    /\ loc.source = 3
    /\ Len(CoverageQueries) = 3
    /\ CoverageQueries[1].source = 1
    /\ Len(loc.coverage) = 2

\* a source that failed or yielded no rows hands over to the next source,
\* and after source 4 the call returns an empty list
FailedSourceFallsThrough ==
    InAggregatorCall
        => LET q == CoverageQueries
           IN \A i \in 1..Len(q) :
                 q[i].rows = 0
                    => IF q[i].source < 4
                       THEN \/ i < Len(q) /\ q[i + 1].source = q[i].source + 1
                            \/ i = Len(q) /\ pc = "coverage" /\ loc.next = q[i].source + 1
                       ELSE AtReport /\ loc.coverage = <<>> /\ loc.source = 0

\* C26: a failure of any coverage source (connection lost, query error, no
\* rows) makes the aggregator go on to the next source; a step of the
\* aggregator never produces an outcome of its own (it never raises to its
\* caller) but stays in the chain or returns to the caller; and when all
\* sources failed or were empty the list it returns is empty.
C26_AggregatorContainsFailures ==
    /\ []FailedSourceFallsThrough
    /\ [][pc = "coverage" => pc' \in {"coverage", loc.cont} /\ result' = result]_vars

C26_Witness ==
    /\ AtReport
    /\ Len(CoverageQueries) = 4
    /\ ~CoverageQueries[1].sent
    /\ CoverageQueries[2].rows = 0
    /\ CoverageQueries[3].rows = 0
    /\ CoverageQueries[4].rows = 0
    /\ loc.coverage = <<>>

\* C27 as stated: whichever source produced it, the list the aggregator
\* returns holds no two records with the same unit name.
C27_OneRecordPerUnit ==
    AtReport
        => \A i, j \in 1..Len(loc.coverage) :
              loc.coverage[i].Name = loc.coverage[j].Name => i = j

\* the dedup reads that raise
FailedDedupReads == {"queue_query_failed", "job_query_failed"}

\* C28: a dedup check that could not be evaluated (its connection check
\* failed, so no query was made, or one of its queries raised) does not stop
\* the submission: the step leaves no outcome and goes on to unit resolution,
\* and no submission with a failed dedup read ends as already running.
C28_DedupFailsOpen ==
    /\ [](req.op = runOp /\ HasOp(FailedDedupReads) => result.kind # "already_running")
    /\ [][(pc = "dedup" /\ (trace' = trace
                              \/ trace'[Len(trace')].op \in FailedDedupReads))
             => pc' = "resolve" /\ result' = result]_vars

C28_Witness ==
    /\ req.op = runOp
    /\ HasOp({"queue_query_failed"})
    /\ HasOp({"create"})
    /\ result.kind = "enqueued"
    /\ result.success

\* the rows of unit name, in row order
RECURSIVE RowsOfUnit(_, _)
RowsOfUnit(name, rows) ==
    IF rows = <<>>
    THEN <<>>
    ELSE (IF Head(rows).Name = name THEN <<Head(rows)>> ELSE <<>>)
             \o RowsOfUnit(name, Tail(rows))

\* C29: in every record of a report the per-method job-scoped source
\* produced, the contributing-methods list has exactly one entry per input
\* row of the record's unit, in row order, and the record's covered and
\* uncovered counts are the maxima of the covered and of the uncovered values
\* of those entries.
C29_MethodsMatchRows ==
    (AtReport /\ loc.source = 1)
        => \A k \in 1..Len(loc.coverage) :
              LET e == loc.coverage[k]
                  unitRows == RowsOfUnit(e.Name, covRows)
                  entries == 1..Len(e.TestMethods)
              IN /\ Len(e.TestMethods) = Len(unitRows)
                 /\ \A i \in entries : e.TestMethods[i] = MethodEntry(unitRows[i])
                 /\ \E i \in entries : e.TestMethods[i].covered = e.NumLinesCovered
                 /\ \A i \in entries : e.TestMethods[i].covered <= e.NumLinesCovered
                 /\ \E i \in entries : e.TestMethods[i].uncovered = e.NumLinesUncovered
                 /\ \A i \in entries : e.TestMethods[i].uncovered <= e.NumLinesUncovered

C29_Witness ==
    /\ AtReport
    /\ loc.source = 1
    /\ Len(loc.coverage) = 1
    /\ Len(loc.coverage[1].TestMethods) = 2
    /\ loc.coverage[1].TestMethods[1].covered < loc.coverage[1].TestMethods[2].covered
    /\ loc.coverage[1].TestMethods[1].uncovered > loc.coverage[1].TestMethods[2].uncovered

\* C30 as stated: a waited run without coverage_requested queries no coverage
\* source, and with coverage_requested the fallback chain is run at most once
\* per completed run (the report producer never starts it again after the
\* result retrieval ran it).
C30_CoverageOnlyWhenRequested ==
    req.op = runOp
        => /\ ~req.code_coverage => pc # "coverage" /\ ~HasOp({"coverage_query"})
           /\ req.code_coverage => ~(pc = "coverage" /\ loc.cont = "format_report")

====
